---- MODULE Spec2Model ----
(***************************************************************************)
(* Meal-registration server, latest variant (src/unnamed/part_002 lines    *)
(* 1782-2485): the users and mealhistories collections, the request        *)
(* handlers that write them and the daily cron job.                        *)
(*                                                                         *)
(* Calendar days are integers: a Date normalised by setHours(0,0,0,0) is   *)
(* the number of its day.  The variable today is the server's current day. *)
(***************************************************************************)
EXTENDS Integers, FiniteSets, Sequences, TLC

\* ------------------------------------------------------------------ bounds
MaxDay == 2
MaxOps == 3
\* the number of requests handled in the longer sequences of SpecOneUser
MaxOpsOneUser == 4

Users == {"u1", "u2"}
Dates == 0..MaxDay
AnyMealString == {"Lunch", "Dinner", "Both", "Off", "Brunch"}
\* ['Lunch', 'Dinner', 'Both', 'Off'].includes(meal)
Meals == {"Lunch", "Dinner", "Both", "Off"}
MealInputs == Meals \cup {"Brunch"}
Slots == {"Lunch", "Dinner"}
ItemInputs == {<<>>, <<"Egg">>}

Procs == {"p1", "p2"}

VARIABLES users, mealhistories, today, ops, last, procs

vars == <<users, mealhistories, today, ops, last, procs>>

\* ------------------------------------------------------- the document store
NoDoc == [none |-> TRUE]

BadMealCount(meal) == IF meal = "Both" THEN 1 ELSE IF meal \in {"Lunch", "Dinner"} THEN 1 ELSE 0

\* meal === 'Both' ? 2 : ['Lunch', 'Dinner'].includes(meal) ? 1 : 0
MealCount(meal) == IF meal = "Both" THEN 2 ELSE IF meal \in {"Lunch", "Dinner"} THEN 1 ELSE 0

Matching(mhs, uid, date) == {r \in mhs : r.userId = uid /\ r.date = date}

FindOneOfAnyUser(mhs, uid, date) ==
  IF {r \in mhs : r.date = date} = {} THEN NoDoc
  ELSE CHOOSE r \in {q \in mhs : q.date = date} : TRUE

\* MealHistory.findOne({ userId, date })
FindOne(mhs, uid, date) ==
  IF Matching(mhs, uid, date) = {} THEN NoDoc
  ELSE CHOOSE r \in Matching(mhs, uid, date) :
         \A q \in Matching(mhs, uid, date) : r._id[3] <= q._id[3]

\* MealHistory.findOne({ userId, date: { $lt: date } }).sort({ date: -1 })
FindLatestBefore(mhs, uid, date) ==
  LET before == {r \in mhs : r.userId = uid /\ r.date < date}
  IN IF before = {} THEN NoDoc
     ELSE CHOOSE r \in before : \A q \in before : q.date <= r.date

\* MealHistory.find({ date })
FindByDate(mhs, date) == {r \in mhs : r.date = date}

\* the ObjectId of a new document: unused so far, since nothing is ever deleted
NewId(mhs, uid, date) == <<uid, date, Cardinality(Matching(mhs, uid, date))>>

NewMealHistoryNoCount(mhs, uid, date, meal, items, count) ==
  [_id |-> NewId(mhs, uid, date), userId |-> uid, date |-> date, meal |-> meal,
   additionalItems |-> items, lunchServed |-> FALSE, dinnerServed |-> FALSE,
   dailyMealCount |-> 0, isExtra |-> FALSE]

\* new MealHistory({...}) with the schema defaults (isExtra: false)
NewMealHistory(mhs, uid, date, meal, items, count) ==
  [_id |-> NewId(mhs, uid, date), userId |-> uid, date |-> date, meal |-> meal,
   additionalItems |-> items, lunchServed |-> FALSE, dinnerServed |-> FALSE,
   dailyMealCount |-> count, isExtra |-> FALSE]

NoUniqueIndex(mhs, doc) == TRUE

\* mealHistorySchema.index({ userId: 1, date: 1 }, { unique: true }):
\* save() throws a duplicate-key error when the key is taken
CanSave(mhs, doc) == Matching(mhs, doc.userId, doc.date) = {}

Save(mhs, doc) == mhs \cup {doc}

UpdateOneResettingFlags(mhs, id, fields) ==
  {IF r._id = id THEN (fields @@ [lunchServed |-> FALSE, dinnerServed |-> FALSE]) @@ r ELSE r :
     r \in mhs}

\* MealHistory.updateOne({ _id }, fields)
UpdateOne(mhs, id, fields) == {IF r._id = id THEN fields @@ r ELSE r : r \in mhs}

SetTotal(us, uid, delta) ==
  IF uid \in DOMAIN us THEN [us EXCEPT ![uid].totalMealCount = delta] ELSE us

\* User.updateOne({ _id }, { $inc: { totalMealCount: delta } })
IncTotal(us, uid, delta) ==
  IF uid \in DOMAIN us THEN [us EXCEPT ![uid].totalMealCount = @ + delta] ELSE us

\* User.updateMany({ _id: { $in: userIds } }, { $inc: { totalMealCount: n } })
IncMany(us, userIds, n) ==
  [u \in DOMAIN us |-> IF u \in userIds THEN [us[u] EXCEPT !.totalMealCount = @ + n] ELSE us[u]]

\* ------------------------------------------------- a request in progress
\* The local variables of one running handler; pc is the await it is suspended at.
Idle ==
  [pc |-> "idle", op |-> "none", userId |-> "-", date |-> 0, meal |-> "", items |-> <<>>,
   doc |-> NoDoc, todo |-> {}, userIds |-> {}, n |-> 0, status |-> 0, error |-> "",
   body |-> <<>>]

Call(op, uid, date, meal, items, todo) ==
  [Idle EXCEPT !.pc = "start", !.op = op, !.userId = uid, !.date = date, !.meal = meal,
               !.items = items, !.todo = todo]

Out(db, l) == [db |-> db, l |-> l]

\* res.status(status).json(...): the handler returns
Done(l, status, error) ==
  [l EXCEPT !.pc = "done", !.status = status, !.error = error,
            !.doc = NoDoc, !.todo = {}, !.userIds = {}]

Goto(l, pc) == [l EXCEPT !.pc = pc]

\* --------------------------------------------------- POST /meal-update
KeepServedFlags(meal, doc) == [lunchServed |-> doc.lunchServed, dinnerServed |-> doc.dinnerServed]

ClearServedFlags(meal, doc) == [lunchServed |-> FALSE, dinnerServed |-> FALSE]

\* lunchServed: ['Both', 'Lunch'].includes(meal) ? mealHistory.lunchServed : false, and
\* the same for dinnerServed
ServedFlags(meal, doc) ==
  [lunchServed |-> IF meal \in {"Both", "Lunch"} THEN doc.lunchServed ELSE FALSE,
   dinnerServed |-> IF meal \in {"Both", "Dinner"} THEN doc.dinnerServed ELSE FALSE]

WriteWithoutItems(mhs, uid, date, meal, items, doc) ==
  IF doc # NoDoc
  THEN UpdateOne(mhs, doc._id,
         [meal |-> meal, dailyMealCount |-> MealCount(meal)] @@ ServedFlags(meal, doc))
  ELSE Save(mhs, NewMealHistory(mhs, uid, date, meal, items, MealCount(meal)))

\* the record write of the handler: updateOne on the document read, or save of a new one
MealUpdateWrite(mhs, uid, date, meal, items, doc) ==
  IF doc # NoDoc
  THEN UpdateOne(mhs, doc._id,
         [meal |-> meal, additionalItems |-> items, dailyMealCount |-> MealCount(meal)]
           @@ ServedFlags(meal, doc))
  ELSE Save(mhs, NewMealHistory(mhs, uid, date, meal, items, MealCount(meal)))

DeltaIgnoringOld(meal, doc) == MealCount(meal)

\* the $inc of the handler: newMealCount - oldMealCount, or newMealCount for a new record
MealUpdateDelta(meal, doc) ==
  IF doc # NoDoc THEN MealCount(meal) - MealCount(doc.meal) ELSE MealCount(meal)

PastOrToday(date, now) == date <= now

\* new Date(selectedDate.getTime() + 24 * 60 * 60 * 1000 - 1) < new Date(): the selected
\* day has ended
PastDate(date, now) == date < now

MealUpdateStep(db, now, l) ==
  CASE l.pc = "start" ->
         IF l.meal \notin Meals THEN Out(db, Done(l, 400, "Invalid meal type"))
         ELSE IF PastDate(l.date, now) THEN Out(db, Done(l, 400, "Cannot update past date"))
         ELSE IF l.userId \notin DOMAIN db.us THEN Out(db, Done(l, 401, "User not found"))
         ELSE Out(db, Goto(l, "find"))
    [] l.pc = "find" ->
         Out(db, [l EXCEPT !.pc = "write", !.doc = FindOne(db.mhs, l.userId, l.date)])
    [] l.pc = "write" ->
         IF l.doc = NoDoc
            /\ ~CanSave(db.mhs, NewMealHistory(db.mhs, l.userId, l.date, l.meal, l.items, 0))
         THEN Out(db, Done(l, 500, "Failed to update meal"))
         ELSE Out([db EXCEPT !.mhs = MealUpdateWrite(db.mhs, l.userId, l.date, l.meal, l.items, l.doc)],
                  Goto(l, "inc"))
    [] l.pc = "inc" ->
         Out([db EXCEPT !.us = IncTotal(db.us, l.userId, MealUpdateDelta(l.meal, l.doc))],
             Done(l, 200, ""))

\* ------------------------------------------- POST /api/meal/staff-update
StaffWriteResettingFlags(mhs, uid, date, meal, doc) ==
  IF doc # NoDoc
  THEN UpdateOne(mhs, doc._id,
         [meal |-> meal, dailyMealCount |-> MealCount(meal),
          lunchServed |-> FALSE, dinnerServed |-> FALSE])
  ELSE Save(mhs, NewMealHistory(mhs, uid, date, meal, <<>>, MealCount(meal)))

\* the record write of the handler: as in POST /meal-update, without additionalItems
StaffUpdateWrite(mhs, uid, date, meal, doc) ==
  IF doc # NoDoc
  THEN UpdateOne(mhs, doc._id,
         [meal |-> meal, dailyMealCount |-> MealCount(meal)] @@ ServedFlags(meal, doc))
  ELSE Save(mhs, NewMealHistory(mhs, uid, date, meal, <<>>, MealCount(meal)))

StaffUpdateStep(db, l) ==
  CASE l.pc = "start" ->
         IF l.meal \notin Meals THEN Out(db, Done(l, 400, "Invalid meal type"))
         ELSE IF l.userId \notin DOMAIN db.us THEN Out(db, Done(l, 401, "User not found"))
         ELSE Out(db, Goto(l, "find"))
    [] l.pc = "find" ->
         Out(db, [l EXCEPT !.pc = "write", !.doc = FindOne(db.mhs, l.userId, l.date)])
    [] l.pc = "write" ->
         IF l.doc = NoDoc
            /\ ~CanSave(db.mhs, NewMealHistory(db.mhs, l.userId, l.date, l.meal, <<>>, 0))
         THEN Out(db, Done(l, 500, "Failed to update meal"))
         ELSE Out([db EXCEPT !.mhs = StaffUpdateWrite(db.mhs, l.userId, l.date, l.meal, l.doc)],
                  Goto(l, "inc"))
    [] l.pc = "inc" ->
         Out([db EXCEPT !.us = IncTotal(db.us, l.userId, MealUpdateDelta(l.meal, l.doc))],
             Done(l, 200, ""))

\* --------------------------------------------- cron.schedule daily rollover
CarriedWithoutItems(mhs, uid, date, previousMeal) ==
  IF previousMeal # NoDoc
  THEN NewMealHistory(mhs, uid, date, previousMeal.meal, <<>>, MealCount(previousMeal.meal))
  ELSE NewMealHistory(mhs, uid, date, "Off", <<>>, 0)

\* meal: previousMeal?.meal || 'Off', additionalItems: previousMeal?.additionalItems || [],
\* dailyMealCount: previousMeal ? count(previousMeal.meal) : 0
CarriedForward(mhs, uid, date, previousMeal) ==
  IF previousMeal # NoDoc
  THEN NewMealHistory(mhs, uid, date, previousMeal.meal, previousMeal.additionalItems,
                      MealCount(previousMeal.meal))
  ELSE NewMealHistory(mhs, uid, date, "Off", <<>>, 0)

\* for (const user of users): the next user of the loop, or the end of the job
RolloverNext(l) ==
  IF l.todo = {} THEN Done(l, 0, "")
  ELSE [l EXCEPT !.pc = "find", !.userId = CHOOSE u \in l.todo : TRUE, !.doc = NoDoc]

RolloverFullCount(mealHistory) == MealCount(mealHistory.meal)

\* the $inc of the job: mealCount - mealHistory.dailyMealCount
RolloverDelta(mealHistory) == MealCount(mealHistory.meal) - mealHistory.dailyMealCount

RolloverStep(db, now, l) ==
  CASE l.pc = "start" ->
         Out(db, RolloverNext([l EXCEPT !.date = now, !.todo = DOMAIN db.us]))
    [] l.pc = "find" ->
         LET mealHistory == FindOne(db.mhs, l.userId, l.date)
         IN Out(db, [l EXCEPT !.doc = mealHistory,
                              !.pc = IF mealHistory = NoDoc THEN "findPrev" ELSE "update"])
    [] l.pc = "findPrev" ->
         Out(db, [l EXCEPT !.pc = "save", !.doc = FindOne(db.mhs, l.userId, l.date - 1)])
    [] l.pc = "save" ->
         LET mealHistory == CarriedForward(db.mhs, l.userId, l.date, l.doc)
         IN IF CanSave(db.mhs, mealHistory)
            THEN Out([db EXCEPT !.mhs = Save(db.mhs, mealHistory)],
                     [l EXCEPT !.pc = "update", !.doc = mealHistory])
            ELSE Out(db, Done(l, 500, "Error in cron job"))
    [] l.pc = "update" ->
         Out([db EXCEPT !.mhs = UpdateOne(db.mhs, l.doc._id,
                                          [dailyMealCount |-> MealCount(l.doc.meal)])],
             Goto(l, "inc"))
    [] l.pc = "inc" ->
         Out([db EXCEPT !.us = IncTotal(db.us, l.userId, RolloverDelta(l.doc))],
             RolloverNext([l EXCEPT !.todo = l.todo \ {l.userId}]))

\* ------------------------------------------------------ GET /staff/serving
\* The batch/gender query is the set of users it matches (l.todo at the start); when it
\* matches none the handler falls back to every user.
ServingUsers(us, filter) == IF filter = {} THEN DOMAIN us ELSE filter

\* the loop skips the users that have a record in the list read at the start
ServingNext(l) ==
  IF l.todo \ l.userIds = {} THEN Done(l, 200, "")
  ELSE [l EXCEPT !.pc = "findPrev", !.userId = CHOOSE u \in l.todo \ l.userIds : TRUE,
                 !.doc = NoDoc]

StaffServingStep(db, l) ==
  CASE l.pc = "start" ->
         Out(db, [l EXCEPT !.pc = "findDate", !.todo = ServingUsers(db.us, l.todo)])
    [] l.pc = "findDate" ->
         LET mealHistories == FindByDate(db.mhs, l.date)
         IN IF Cardinality(mealHistories) < Cardinality(l.todo)
            THEN Out(db, ServingNext([l EXCEPT !.userIds = {r.userId : r \in mealHistories}]))
            ELSE Out(db, Done(l, 200, ""))
    [] l.pc = "findPrev" ->
         Out(db, [l EXCEPT !.pc = "save", !.doc = FindLatestBefore(db.mhs, l.userId, l.date)])
    [] l.pc = "save" ->
         LET mealHistory == CarriedForward(db.mhs, l.userId, l.date, l.doc)
         IN IF CanSave(db.mhs, mealHistory)
            THEN Out([db EXCEPT !.mhs = Save(db.mhs, mealHistory)],
                     ServingNext([l EXCEPT !.todo = l.todo \ {l.userId}]))
            ELSE Out(db, Done(l, 500, "Failed to load data"))

\* ------------------------------------------- POST /api/meal/serve/:userId
BothServedFields(mealType) == [lunchServed |-> TRUE, dinnerServed |-> TRUE]

\* { [mealType === 'Lunch' ? 'lunchServed' : 'dinnerServed']: true }
ServedField(mealType) ==
  IF mealType = "Lunch" THEN [lunchServed |-> TRUE] ELSE [dinnerServed |-> TRUE]

ServeRefusalNoServedCheck(mealHistory, mealType) ==
  IF mealHistory.meal = "Off" THEN "Cannot serve meal for Off status"
  ELSE IF mealType = "Lunch" /\ mealHistory.meal \notin {"Lunch", "Both"} THEN "Lunch not enabled"
  ELSE IF mealType = "Dinner" /\ mealHistory.meal \notin {"Dinner", "Both"} THEN "Dinner not enabled"
  ELSE ""

\* the checks of lines 2197-2200, in the code's order; "" when the slot can be served
ServeRefusal(mealHistory, mealType) ==
  IF mealHistory.meal = "Off" THEN "Cannot serve meal for Off status"
  ELSE IF \/ mealType = "Lunch" /\ mealHistory.lunchServed
          \/ mealType = "Dinner" /\ mealHistory.dinnerServed THEN "already served"
  ELSE IF mealType = "Lunch" /\ mealHistory.meal \notin {"Lunch", "Both"} THEN "Lunch not enabled"
  ELSE IF mealType = "Dinner" /\ mealHistory.meal \notin {"Dinner", "Both"} THEN "Dinner not enabled"
  ELSE ""

\* lines 2197-2200 once mealHistory is known: an error response, or on to the updateOne
ServeChecked(l) ==
  IF ServeRefusal(l.doc, l.meal) # "" THEN Done(l, 400, ServeRefusal(l.doc, l.meal))
  ELSE Goto(l, "update")

ServeStep(db, l) ==
  CASE l.pc = "start" ->
         IF l.meal \notin {"Lunch", "Dinner"} THEN Out(db, Done(l, 400, "Invalid meal type"))
         ELSE Out(db, Goto(l, "find"))
    [] l.pc = "find" ->
         LET mealHistory == FindOne(db.mhs, l.userId, l.date)
         IN IF mealHistory # NoDoc THEN Out(db, ServeChecked([l EXCEPT !.doc = mealHistory]))
            ELSE IF l.userId \notin DOMAIN db.us THEN Out(db, Done(l, 404, "User not found"))
            ELSE Out(db, Goto(l, "findPrev"))
    [] l.pc = "findPrev" ->
         Out(db, [l EXCEPT !.pc = "save", !.doc = FindLatestBefore(db.mhs, l.userId, l.date)])
    [] l.pc = "save" ->
         LET mealHistory == CarriedForward(db.mhs, l.userId, l.date, l.doc)
         IN IF CanSave(db.mhs, mealHistory)
            THEN Out([db EXCEPT !.mhs = Save(db.mhs, mealHistory)],
                     ServeChecked([l EXCEPT !.doc = mealHistory]))
            ELSE Out(db, Done(l, 500, "Failed to serve meal"))
    [] l.pc = "update" ->
         Out([db EXCEPT !.mhs = UpdateOne(db.mhs, l.doc._id, ServedField(l.meal))],
             Done(l, 200, ""))

\* ------------------- POST /api/meal/serve/:userId, first variant (lines 577-615)
\* the checks of lines 593-604; "" when the handler goes on to the updateOne
ServeFirstRefusal(mealHistory, mealType) ==
  IF mealHistory.meal = "Off" THEN "Cannot serve meal for Off status"
  ELSE IF mealType = "Lunch" /\ mealHistory.lunchServed THEN "already served"
  ELSE IF mealType = "Dinner" /\ mealHistory.dinnerServed THEN "already served"
  ELSE ""

ServeFirstStep(db, l) ==
  CASE l.pc = "start" ->
         IF l.meal \notin {"Lunch", "Dinner"} THEN Out(db, Done(l, 400, "Invalid meal type"))
         ELSE Out(db, Goto(l, "find"))
    [] l.pc = "find" ->
         LET mealHistory == FindOne(db.mhs, l.userId, l.date)
         IN IF mealHistory = NoDoc THEN Out(db, Done(l, 404, "Meal history not found"))
            ELSE IF ServeFirstRefusal(mealHistory, l.meal) # ""
            THEN Out(db, Done(l, 400, ServeFirstRefusal(mealHistory, l.meal)))
            ELSE Out(db, [l EXCEPT !.pc = "update", !.doc = mealHistory])
    [] l.pc = "update" ->
         Out([db EXCEPT !.mhs = UpdateOne(db.mhs, l.doc._id, ServedField(l.meal))],
             Done(l, 200, ""))

\* ----------------- POST /api/meal/serve/:userId, second variant (lines 1398-1430)
\* the checks of lines 1420-1423
ServeSecondRefusal(mealHistory, mealType) ==
  IF mealHistory.meal = "Off" THEN "Cannot serve meal for Off status"
  ELSE IF \/ mealType = "Lunch" /\ mealHistory.lunchServed
          \/ mealType = "Dinner" /\ mealHistory.dinnerServed THEN "already served"
  ELSE IF mealType = "Lunch" /\ mealHistory.meal \notin {"Lunch", "Both"}
  THEN "Lunch not enabled for this user"
  ELSE IF mealType = "Dinner" /\ mealHistory.meal \notin {"Dinner", "Both"}
  THEN "Dinner not enabled for this user"
  ELSE ""

ServeSecondChecked(l) ==
  IF ServeSecondRefusal(l.doc, l.meal) # "" THEN Done(l, 400, ServeSecondRefusal(l.doc, l.meal))
  ELSE Goto(l, "update")

ServeSecondStep(db, l) ==
  CASE l.pc = "start" ->
         IF l.meal \notin {"Lunch", "Dinner"} THEN Out(db, Done(l, 400, "Invalid meal type"))
         ELSE Out(db, Goto(l, "find"))
    [] l.pc = "find" ->
         LET mealHistory == FindOne(db.mhs, l.userId, l.date)
         IN IF mealHistory # NoDoc THEN Out(db, ServeSecondChecked([l EXCEPT !.doc = mealHistory]))
            ELSE IF l.userId \notin DOMAIN db.us THEN Out(db, Done(l, 404, "User not found"))
            ELSE Out(db, Goto(l, "findPrev"))
    [] l.pc = "findPrev" ->
         Out(db, [l EXCEPT !.pc = "save", !.doc = FindLatestBefore(db.mhs, l.userId, l.date)])
    [] l.pc = "save" ->
         LET mealHistory == CarriedForward(db.mhs, l.userId, l.date, l.doc)
         IN IF CanSave(db.mhs, mealHistory)
            THEN Out([db EXCEPT !.mhs = Save(db.mhs, mealHistory)],
                     ServeSecondChecked([l EXCEPT !.doc = mealHistory]))
            ELSE Out(db, Done(l, 500, "Failed to serve meal"))
    [] l.pc = "update" ->
         Out([db EXCEPT !.mhs = UpdateOne(db.mhs, l.doc._id, ServedField(l.meal))],
             Done(l, 200, ""))

\* ------------------------------------------------- POST /api/meal/extra
\* dailyMealCount: mealType === 'Both' ? 2 : 1
ExtraCount(mealType) == IF mealType = "Both" THEN 2 ELSE 1

\* MealHistory.updateMany({ date, meal: 'Off' }, {...})
ExtraUpdateMany(mhs, date, mealType) ==
  {IF r.date = date /\ r.meal = "Off"
   THEN [meal |-> mealType, lunchServed |-> FALSE, dinnerServed |-> FALSE,
         dailyMealCount |-> ExtraCount(mealType), isExtra |-> TRUE] @@ r
   ELSE r : r \in mhs}

ExtraMatchedOnDate(mhs, date) == Cardinality(FindByDate(mhs, date))

\* updated.modifiedCount
ExtraModifiedCount(mhs, date) == Cardinality({r \in mhs : r.date = date /\ r.meal = "Off"})

\* (await MealHistory.find({ date, meal: mealType })).map(m => m.userId)
ExtraUserIds(mhs, date, mealType) ==
  {r.userId : r \in {q \in mhs : q.date = date /\ q.meal = mealType}}

ExtraStep(db, l) ==
  CASE l.pc = "start" ->
         IF l.meal \notin {"Lunch", "Dinner", "Both"}
         THEN Out(db, Done(l, 400, "Invalid meal type"))
         ELSE Out(db, Goto(l, "updateMany"))
    [] l.pc = "updateMany" ->
         LET modifiedCount == ExtraModifiedCount(db.mhs, l.date)
             after == [db EXCEPT !.mhs = ExtraUpdateMany(db.mhs, l.date, l.meal)]
         IN IF modifiedCount > 0
            THEN Out(after, [l EXCEPT !.pc = "findIds", !.n = modifiedCount])
            ELSE Out(after, Done([l EXCEPT !.n = modifiedCount], 200, ""))
    [] l.pc = "findIds" ->
         Out(db, [l EXCEPT !.pc = "incMany", !.userIds = ExtraUserIds(db.mhs, l.date, l.meal)])
    [] l.pc = "incMany" ->
         Out([db EXCEPT !.us = IncMany(db.us, l.userIds, ExtraCount(l.meal))], Done(l, 200, ""))

\* ---------------------------------------- POST /api/meal/extra-specific
ExtraNewMealUnchecked(mealHistory, mealType) ==
  IF mealHistory.meal = "Off" THEN mealType ELSE "Both"

\* lines 2253-2262: the new meal, or "" when the slot is already enabled
ExtraNewMeal(mealHistory, mealType) ==
  IF mealHistory.meal = "Off" THEN mealType
  ELSE IF \/ mealHistory.meal = "Lunch" /\ mealType = "Dinner"
          \/ mealHistory.meal = "Dinner" /\ mealType = "Lunch" THEN "Both"
  ELSE ""

ExtraNewCountOne(mealHistory) == 1

\* newMealCount of lines 2256 and 2259
ExtraNewCount(mealHistory) == IF mealHistory.meal = "Off" THEN 1 ELSE 2

ExtraSpecificChecked(l) ==
  IF ExtraNewMeal(l.doc, l.meal) = "" THEN Done(l, 400, "already enabled")
  ELSE Goto(l, "update")

ExtraSpecificStep(db, l) ==
  CASE l.pc = "start" ->
         IF l.meal \notin {"Lunch", "Dinner"} THEN Out(db, Done(l, 400, "Invalid meal type"))
         ELSE Out(db, Goto(l, "find"))
    [] l.pc = "find" ->
         LET mealHistory == FindOne(db.mhs, l.userId, l.date)
         IN IF mealHistory # NoDoc
            THEN Out(db, ExtraSpecificChecked([l EXCEPT !.doc = mealHistory]))
            ELSE IF l.userId \notin DOMAIN db.us THEN Out(db, Done(l, 404, "User not found"))
            ELSE Out(db, Goto(l, "save"))
    [] l.pc = "save" ->
         LET mealHistory == NewMealHistory(db.mhs, l.userId, l.date, "Off", <<>>, 0)
         IN IF CanSave(db.mhs, mealHistory)
            THEN Out([db EXCEPT !.mhs = Save(db.mhs, mealHistory)],
                     ExtraSpecificChecked([l EXCEPT !.doc = mealHistory]))
            ELSE Out(db, Done(l, 500, "Failed to enable extra meal"))
    [] l.pc = "update" ->
         Out([db EXCEPT !.mhs = UpdateOne(db.mhs, l.doc._id,
                [meal |-> ExtraNewMeal(l.doc, l.meal), dailyMealCount |-> ExtraNewCount(l.doc),
                 isExtra |-> TRUE] @@ ServedFlags(ExtraNewMeal(l.doc, l.meal), l.doc))],
             Goto(l, "inc"))
    [] l.pc = "inc" ->
         Out([db EXCEPT !.us = IncTotal(db.us, l.userId,
                                        ExtraNewCount(l.doc) - MealCount(l.doc.meal))],
             Done(l, 200, ""))

\* ------------------------------------------------ GET /api/meal/all-users
\* mealHistories.find(mh => mh.userId == user._id)
\*   || { meal: 'Off', lunchServed: false, dinnerServed: false }
HistoryOrOff(mealHistories, uid) ==
  IF \E mh \in mealHistories : mh.userId = uid
  THEN CHOOSE mh \in mealHistories : mh.userId = uid
  ELSE [meal |-> "Off", lunchServed |-> FALSE, dinnerServed |-> FALSE]

\* offMeals of lines 2291-2296
OffMeals(mealHistory) ==
  IF mealHistory.meal = "Off" THEN <<"Lunch", "Dinner">>
  ELSE IF mealHistory.meal = "Lunch" /\ ~mealHistory.lunchServed THEN <<"Dinner">>
  ELSE IF mealHistory.meal = "Dinner" /\ ~mealHistory.dinnerServed THEN <<"Lunch">>
  ELSE IF mealHistory.meal = "Both" /\ ~mealHistory.lunchServed THEN <<"Lunch">>
  ELSE IF mealHistory.meal = "Both" /\ ~mealHistory.dinnerServed THEN <<"Dinner">>
  ELSE <<>>

\* users.map(...).filter(Boolean): the users with some offMeals, each with its offMeals
AllUsersBody(mealHistories, listed) ==
  [u \in {v \in listed : OffMeals(HistoryOrOff(mealHistories, v)) # <<>>}
     |-> OffMeals(HistoryOrOff(mealHistories, u))]

AllUsersWriting(db, l) ==
  CASE l.pc = "start" -> Out(db, Goto(l, "findUsers"))
    [] l.pc = "findUsers" ->
         Out(db, [l EXCEPT !.pc = "findDate", !.userIds = l.todo \cap DOMAIN db.us])
    [] l.pc = "findDate" ->
         Out([db EXCEPT !.mhs = {[r EXCEPT !.isExtra = TRUE] : r \in db.mhs}],
             [Done(l, 200, "") EXCEPT !.body = AllUsersBody(FindByDate(db.mhs, l.date), l.userIds)])

\* the batch/gender query is the set of users it matches (l.todo)
AllUsersStep(db, l) ==
  CASE l.pc = "start" -> Out(db, Goto(l, "findUsers"))
    [] l.pc = "findUsers" ->
         Out(db, [l EXCEPT !.pc = "findDate", !.userIds = l.todo \cap DOMAIN db.us])
    [] l.pc = "findDate" ->
         Out(db, [Done(l, 200, "") EXCEPT
                    !.body = AllUsersBody(FindByDate(db.mhs, l.date), l.userIds)])

\* --------------------------- GET /api/meal/off-users (lines 1503-1528)
\* offMeals of lines 1515-1520
OffUsersMeals(mealHistory) ==
  IF mealHistory.meal = "Off" THEN <<"Lunch", "Dinner">>
  ELSE IF mealHistory.meal = "Lunch" /\ ~mealHistory.lunchServed THEN <<"Lunch">>
  ELSE IF mealHistory.meal = "Dinner" /\ ~mealHistory.dinnerServed THEN <<"Dinner">>
  ELSE IF mealHistory.meal = "Both" /\ ~mealHistory.lunchServed THEN <<"Lunch">>
  ELSE IF mealHistory.meal = "Both" /\ ~mealHistory.dinnerServed THEN <<"Dinner">>
  ELSE <<>>

OffUsersBody(mealHistories, listed) ==
  [u \in {v \in listed : OffUsersMeals(HistoryOrOff(mealHistories, v)) # <<>>}
     |-> OffUsersMeals(HistoryOrOff(mealHistories, u))]

OffUsersStep(db, l) ==
  CASE l.pc = "start" -> Out(db, Goto(l, "findUsers"))
    [] l.pc = "findUsers" ->
         Out(db, [l EXCEPT !.pc = "findDate", !.userIds = l.todo \cap DOMAIN db.us])
    [] l.pc = "findDate" ->
         Out(db, [Done(l, 200, "") EXCEPT
                    !.body = OffUsersBody(FindByDate(db.mhs, l.date), l.userIds)])

\* ---------------------------------------------- GET /api/meal/total-count
\* mealHistories.reduce((sum, mh) => sum + mh.dailyMealCount, 0)
RECURSIVE TotalCountOf(_)
TotalCountOf(mealHistories) ==
  IF mealHistories = {} THEN 0
  ELSE LET mh == CHOOSE x \in mealHistories : TRUE
       IN mh.dailyMealCount + TotalCountOf(mealHistories \ {mh})

TotalCountStep(db, l) ==
  CASE l.pc = "start" -> Out(db, Goto(l, "findDate"))
    [] l.pc = "findDate" ->
         Out(db, [Done(l, 200, "") EXCEPT !.n = TotalCountOf(FindByDate(db.mhs, l.date))])

\* -------------------------------------------- POST /api/users/:id/update
\* a field of req.body is <<v>> when it is given as v and <<>> when it is undefined
Undefined == <<>>

\* the values req.body gives for deposit and totalMealCount (l.items)
AdminBodies ==
  {[deposit |-> d, totalMealCount |-> t] : d \in {Undefined, <<5>>}, t \in {Undefined, <<7>>}}

AdminAdding(user, body) ==
  [deposit |-> IF body.deposit # Undefined THEN body.deposit[1] ELSE user.deposit,
   totalMealCount |-> IF body.totalMealCount # Undefined
                      THEN user.totalMealCount + body.totalMealCount[1]
                      ELSE user.totalMealCount]

\* { $set: updates }: the given fields take the given values
AdminSet(user, body) ==
  [deposit |-> IF body.deposit # Undefined THEN body.deposit[1] ELSE user.deposit,
   totalMealCount |-> IF body.totalMealCount # Undefined
                      THEN body.totalMealCount[1] ELSE user.totalMealCount]

AdminUpdateStep(db, l) ==
  CASE l.pc = "start" ->
         IF l.items.deposit = Undefined /\ l.items.totalMealCount = Undefined
         THEN Out(db, Done(l, 400, "No updates provided"))
         ELSE Out(db, Goto(l, "update"))
    [] l.pc = "update" ->
         Out([db EXCEPT !.us = [u \in DOMAIN db.us |->
                                  IF u = l.userId THEN AdminSet(db.us[u], l.items) ELSE db.us[u]]],
             Done(l, 200, ""))

\* ------------------------------------- POST /meal-update of src/server.js
\* meal === 'Both' ? 2 : 1
ServerMealCount(meal) == IF meal = "Both" THEN 2 ELSE 1

\* new MealHistory({ userId, date, meal, additionalItems }) with the schema of src/server.js
ServerNewMealHistory(mhs, uid, date, meal, items) ==
  [_id |-> NewId(mhs, uid, date), userId |-> uid, date |-> date, meal |-> meal,
   additionalItems |-> items]

ServerTotalKeepingOld(totalMealCount, mealHistoryEntry) == totalMealCount

\* currentUser.totalMealCount -= (mealHistoryEntry.meal === 'Both' ? 2 : 1)
ServerTotalWithoutOld(totalMealCount, mealHistoryEntry) ==
  totalMealCount - ServerMealCount(mealHistoryEntry.meal)

\* l.n is currentUser.totalMealCount, the counter of the document in memory
ServerMealUpdateStep(db, now, l) ==
  CASE l.pc = "start" -> Out(db, [l EXCEPT !.pc = "findUser", !.date = now])
    [] l.pc = "findUser" ->
         IF l.userId \notin DOMAIN db.us THEN Out(db, Done(l, 500, "Error updating meal"))
         ELSE Out(db, [l EXCEPT !.pc = "findEntry", !.n = db.us[l.userId].totalMealCount])
    [] l.pc = "findEntry" ->
         LET mealHistoryEntry == FindOne(db.mhs, l.userId, l.date)
         IN IF mealHistoryEntry # NoDoc
            THEN Out(db, [l EXCEPT !.pc = "saveEntry", !.doc = mealHistoryEntry,
                                   !.n = ServerTotalWithoutOld(l.n, mealHistoryEntry)])
            ELSE Out(db, Goto(l, "saveNew"))
    [] l.pc = "saveEntry" ->
         Out([db EXCEPT !.mhs = UpdateOne(db.mhs, l.doc._id,
                                          [meal |-> l.meal, additionalItems |-> l.items])],
             [l EXCEPT !.pc = "saveUser", !.n = l.n + ServerMealCount(l.meal)])
    [] l.pc = "saveNew" ->
         Out([db EXCEPT !.mhs = Save(db.mhs, ServerNewMealHistory(db.mhs, l.userId, l.date,
                                                                  l.meal, l.items))],
             [l EXCEPT !.pc = "saveUser", !.n = l.n + ServerMealCount(l.meal)])
    [] l.pc = "saveUser" ->
         Out([db EXCEPT !.us = [db.us EXCEPT ![l.userId].totalMealCount = l.n]],
             Done(l, 200, ""))

\* ------------------------------------------------------- running handlers
\* one step of a handler: from the await it is suspended at to the next one
Step(db, now, l) ==
  CASE l.op = "meal-update" -> MealUpdateStep(db, now, l)
    [] l.op = "staff-update" -> StaffUpdateStep(db, l)
    [] l.op = "rollover" -> RolloverStep(db, now, l)
    [] l.op = "staff-serving" -> StaffServingStep(db, l)
    [] l.op = "serve" -> ServeStep(db, l)
    [] l.op = "serve-first" -> ServeFirstStep(db, l)
    [] l.op = "serve-second" -> ServeSecondStep(db, l)
    [] l.op = "extra" -> ExtraStep(db, l)
    [] l.op = "extra-specific" -> ExtraSpecificStep(db, l)
    [] l.op = "admin-update" -> AdminUpdateStep(db, l)
    [] l.op = "server-meal-update" -> ServerMealUpdateStep(db, now, l)
    [] l.op = "all-users" -> AllUsersStep(db, l)
    [] l.op = "off-users" -> OffUsersStep(db, l)
    [] l.op = "total-count" -> TotalCountStep(db, l)

\* a handler run with nothing else in between
RECURSIVE Run(_, _)
Run(o, now) == IF o.l.pc = "done" THEN o ELSE Run(Step(o.db, now, o.l), now)

Init ==
  /\ users = [u \in Users |-> [totalMealCount |-> 0, deposit |-> 0]]
  /\ mealhistories = {}
  /\ today = 1
  /\ ops = 0
  /\ last = [op |-> "none", userId |-> "-", date |-> 0, meal |-> "", items |-> <<>>,
             status |-> 0, error |-> "", n |-> 0]
  /\ procs = [p \in Procs |-> Idle]

\* ------------------------------------------- one request at a time (Spec)
Request(call) ==
  /\ \E o \in {Run(Out([us |-> users, mhs |-> mealhistories], call), today)} :
     /\ ops' = ops + 1
     /\ users' = o.db.us
     /\ mealhistories' = o.db.mhs
     /\ last' = [op |-> call.op, userId |-> call.userId, date |-> call.date,
                 meal |-> call.meal, items |-> call.items,
                 status |-> o.l.status, error |-> o.l.error, n |-> o.l.n]
     /\ UNCHANGED <<today, procs>>

MealUpdate ==
  \E uid \in Users, date \in Dates, meal \in MealInputs, items \in ItemInputs :
    /\ ops < MaxOps
    /\ Request(Call("meal-update", uid, date, meal, items, {}))

StaffUpdate ==
  \E uid \in Users, date \in Dates, meal \in MealInputs :
    /\ ops < MaxOps
    /\ Request(Call("staff-update", uid, date, meal, <<>>, {}))

Serve ==
  \E uid \in Users, mealType \in Slots, date \in Dates :
    /\ ops < MaxOps
    /\ Request(Call("serve", uid, date, mealType, <<>>, {}))

Extra ==
  \E date \in Dates, mealType \in {"Lunch", "Dinner", "Both"} :
    /\ ops < MaxOps
    /\ Request(Call("extra", "all", date, mealType, <<>>, {}))

ExtraSpecific ==
  \E uid \in Users, mealType \in Slots, date \in Dates :
    /\ ops < MaxOps
    /\ Request(Call("extra-specific", uid, date, mealType, <<>>, {}))

StaffServing ==
  \E filter \in SUBSET Users, date \in Dates :
    /\ ops < MaxOps
    /\ Request(Call("staff-serving", "all", date, "", <<>>, filter))

DailyRollover ==
  /\ ops < MaxOps
  /\ Request(Call("rollover", "all", today, "", <<>>, {}))

\* the server's clock passes midnight
NextDay ==
  /\ today < MaxDay
  /\ today' = today + 1
  /\ UNCHANGED <<users, mealhistories, ops, last, procs>>

Next ==
  \/ MealUpdate
  \/ StaffUpdate
  \/ Serve
  \/ Extra
  \/ ExtraSpecific
  \/ StaffServing
  \/ DailyRollover
  \/ NextDay

Spec == Init /\ [][Next]_vars

\* --------------------------------- self-service updates only (SpecSelfService)
NextSelfService == MealUpdate \/ NextDay

SpecSelfService == Init /\ [][NextSelfService]_vars

\* --------------- the variants of the serve handler (SpecServeVariants)
ServeFirst ==
  \E uid \in Users, mealType \in Slots, date \in Dates :
    /\ ops < MaxOps
    /\ Request(Call("serve-first", uid, date, mealType, <<>>, {}))

ServeSecond ==
  \E uid \in Users, mealType \in Slots, date \in Dates :
    /\ ops < MaxOps
    /\ Request(Call("serve-second", uid, date, mealType, <<>>, {}))

NextServeVariants == StaffUpdate \/ Serve \/ ServeFirst \/ ServeSecond \/ NextDay

SpecServeVariants == Init /\ [][NextServeVariants]_vars

\* --------------------------- every handler and the admin update (SpecAdmin)
AdminUpdate ==
  \E id \in Users, body \in AdminBodies :
    /\ ops < MaxOps
    /\ Request(Call("admin-update", id, 0, "", body, {}))

NextAdmin == Next \/ AdminUpdate

SpecAdmin == Init /\ [][NextAdmin]_vars

\* ------- the variants of the self-service update (SpecMealUpdateVariants)
\* One variant is deployed at a time: the first request decides which.
ServerMealUpdate ==
  \E uid \in Users, meal \in MealInputs, items \in ItemInputs :
    /\ ops < MaxOps
    /\ last.op \in {"none", "server-meal-update"}
    /\ Request(Call("server-meal-update", uid, today, meal, items, {}))

LatestMealUpdate ==
  /\ last.op \in {"none", "meal-update"}
  /\ MealUpdate

NextMealUpdateVariants == LatestMealUpdate \/ ServerMealUpdate \/ NextDay

SpecMealUpdateVariants == Init /\ [][NextMealUpdateVariants]_vars

\* ------------------------------------------- the read queries (SpecQueries)
\* a query handled to completion: its answer is kept with the users its filter matches
Query(call) ==
  /\ \E o \in {Run(Out([us |-> users, mhs |-> mealhistories], call), today)} :
     /\ ops' = ops + 1
     /\ users' = o.db.us
     /\ mealhistories' = o.db.mhs
     /\ last' = [op |-> call.op, userId |-> call.userId, date |-> call.date,
                 meal |-> call.meal, items |-> call.items,
                 status |-> o.l.status, error |-> o.l.error, n |-> o.l.n,
                 filter |-> call.todo, body |-> o.l.body]
     /\ UNCHANGED <<today, procs>>

AllUsers ==
  \E filter \in SUBSET Users, date \in Dates :
    /\ ops < MaxOps
    /\ Query(Call("all-users", "all", date, "", <<>>, filter))

OffUsers ==
  \E filter \in SUBSET Users, date \in Dates :
    /\ ops < MaxOps
    /\ Query(Call("off-users", "all", date, "", <<>>, filter))

TotalCount ==
  \E date \in Dates :
    /\ ops < MaxOps
    /\ Query(Call("total-count", "all", date, "", <<>>, {}))

NextQueries == StaffUpdate \/ Serve \/ AllUsers \/ OffUsers \/ TotalCount \/ NextDay

SpecQueries == Init /\ [][NextQueries]_vars

\* ------------------------------------ requests running concurrently (SpecConc)
\* Node runs a handler until its next await; the handlers of the other requests run in
\* between.  Each process is one request in progress: the code before its first await
\* runs when the request arrives, then one await at a time.
Busy(p) == procs[p].pc \notin {"idle", "done"}

\* the requests that arrive are about yesterday's or today's records
Recent(call) == call.op = "rollover" \/ (today - 1 <= call.date /\ call.date <= today)

Calls ==
  {Call("meal-update", uid, date, meal, <<>>, {}) : uid \in Users, date \in Dates, meal \in Meals}
    \cup {Call("staff-update", uid, date, meal, <<>>, {}) : uid \in Users, date \in Dates, meal \in Meals}
    \cup {Call("serve", uid, date, mealType, <<>>, {}) : uid \in Users, date \in Dates, mealType \in Slots}
    \cup {Call("extra-specific", uid, date, mealType, <<>>, {}) : uid \in Users, date \in Dates, mealType \in Slots}
    \cup {Call("extra", "all", date, mealType, <<>>, {}) : date \in Dates, mealType \in {"Lunch", "Both"}}
    \cup {Call("staff-serving", "all", date, "", <<>>, {}) : date \in Dates}
    \cup {Call("rollover", "all", 0, "", <<>>, {})}

\* a request that ran to completion before the ones of interest arrive
EarlierRequest ==
  /\ \A p \in Procs : procs[p].pc = "idle"
  /\ \E call \in Calls :
       /\ Recent(call)
       /\ \E o \in {Run(Out([us |-> users, mhs |-> mealhistories], call), today)} :
            /\ users' = o.db.us
            /\ mealhistories' = o.db.mhs
  /\ ops' = ops + 1
  /\ UNCHANGED <<today, last, procs>>

\* a request arrives: its code up to the first await runs
BeginOn(p) ==
  \E call \in Calls :
    /\ procs[p].pc = "idle"
    /\ Recent(call)
    /\ procs' = [procs EXCEPT ![p] = Step([us |-> users, mhs |-> mealhistories], today, call).l]
    /\ UNCHANGED <<users, mealhistories, today, ops, last>>

Earlier ==
  /\ ops < MaxOps - Cardinality(Procs)
  /\ EarlierRequest

Begin ==
  \E p \in Procs :
    /\ p = "p1" \/ procs["p1"].pc # "idle"
    /\ BeginOn(p)

\* a suspended handler resumes and runs to its next await
Proceed ==
  \E p \in Procs :
    /\ Busy(p)
    /\ \E o \in {Step([us |-> users, mhs |-> mealhistories], today, procs[p])} :
         /\ users' = o.db.us
         /\ mealhistories' = o.db.mhs
         /\ procs' = [procs EXCEPT ![p] = o.l]
    /\ UNCHANGED <<today, ops, last>>

NextConc == Earlier \/ Begin \/ Proceed

SpecConc == Init /\ [][NextConc]_vars

\* ----------------------------- one request whose persistence may fail (SpecFail)
EarlierAlone ==
  /\ ops < MaxOps - 1
  /\ EarlierRequest

BeginAlone ==
  /\ procs["p2"].pc = "idle"
  /\ BeginOn("p1")

\* the awaited mongoose call rejects: the handler's catch block answers 500 (the cron
\* job's logs the error) and nothing is written by this call
Fail ==
  \E p \in Procs :
    /\ Busy(p)
    /\ procs' = [procs EXCEPT ![p] = Done(procs[p], 500, "persistence error")]
    /\ UNCHANGED <<users, mealhistories, today, ops, last>>

NextFail == EarlierAlone \/ BeginAlone \/ Proceed \/ Fail

SpecFail == Init /\ [][NextFail]_vars

\* ------------------- a longer sequence of requests about one user (SpecOneUser)
OneUser == "u1"

MealUpdateOneUser ==
  \E date \in Dates, meal \in Meals :
    /\ ops < MaxOpsOneUser
    /\ Request(Call("meal-update", OneUser, date, meal, <<>>, {}))

StaffUpdateOneUser ==
  \E date \in Dates, meal \in Meals :
    /\ ops < MaxOpsOneUser
    /\ Request(Call("staff-update", OneUser, date, meal, <<>>, {}))

ServeOneUser ==
  \E mealType \in Slots, date \in Dates :
    /\ ops < MaxOpsOneUser
    /\ Request(Call("serve", OneUser, date, mealType, <<>>, {}))

ExtraOneUser ==
  \E date \in Dates, mealType \in {"Lunch", "Dinner", "Both"} :
    /\ ops < MaxOpsOneUser
    /\ Request(Call("extra", "all", date, mealType, <<>>, {}))

ExtraSpecificOneUser ==
  \E mealType \in Slots, date \in Dates :
    /\ ops < MaxOpsOneUser
    /\ Request(Call("extra-specific", OneUser, date, mealType, <<>>, {}))

StaffServingOneUser ==
  \E date \in Dates :
    /\ ops < MaxOpsOneUser
    /\ Request(Call("staff-serving", "all", date, "", <<>>, {}))

DailyRolloverOneUser ==
  /\ ops < MaxOpsOneUser
  /\ Request(Call("rollover", "all", today, "", <<>>, {}))

NextOneUser ==
  \/ MealUpdateOneUser
  \/ StaffUpdateOneUser
  \/ ServeOneUser
  \/ ExtraOneUser
  \/ ExtraSpecificOneUser
  \/ StaffServingOneUser
  \/ DailyRolloverOneUser
  \/ NextDay

SpecOneUser == Init /\ [][NextOneUser]_vars

\* ============================================================ properties
\* the count of a meal as the specification defines it (I2)
Count(meal) == CASE meal = "Off" -> 0 [] meal = "Lunch" -> 1 [] meal = "Dinner" -> 1 [] meal = "Both" -> 2

RecordsOf(uid) == {r \in mealhistories : r.userId = uid}

RECURSIVE SumDaily(_)
SumDaily(rs) ==
  IF rs = {} THEN 0
  ELSE LET r == CHOOSE x \in rs : TRUE IN r.dailyMealCount + SumDaily(rs \ {r})

Total(uid) == users[uid].totalMealCount

UpdateOps == {"meal-update", "staff-update"}

\* the request that has just run to completion (Spec) was accepted
Accepted(op) == last.op = op /\ last.status = 200

\* C1: after any sequence of operations run one at a time, every user's totalMealCount
\* equals the sum of dailyMealCount over the user's meal records (I1).
C1_TotalEqualsSum == \A u \in Users : Total(u) = SumDaily(RecordsOf(u))

\* C2: two concurrent meal updates on the same (user, date) never both read the same old
\* record and both apply a (non-zero) delta relative to it, and once both have finished the
\* user's totalMealCount equals the sum of dailyMealCount.
C2_NoLostUpdate ==
  \A p, q \in Procs :
    (/\ p # q
     /\ procs[p].op \in UpdateOps /\ procs[q].op \in UpdateOps
     /\ procs[p].userId = procs[q].userId /\ procs[p].date = procs[q].date)
    => /\ ~(/\ procs[p].pc \in {"write", "inc"} /\ procs[q].pc \in {"write", "inc"}
            /\ procs[p].doc # NoDoc /\ procs[p].doc = procs[q].doc
            /\ MealUpdateDelta(procs[p].meal, procs[p].doc) # 0
            /\ MealUpdateDelta(procs[q].meal, procs[q].doc) # 0)
       /\ (procs[p].pc = "done" /\ procs[q].pc = "done")
            => Total(procs[p].userId) = SumDaily(RecordsOf(procs[p].userId))

\* C3: after every self-service meal update of a sequence run one at a time, the user's
\* totalMealCount equals the sum of the dailyMealCount of the user's records.
C3_SelfServiceKeepsSum ==
  last.op \in {"none", "meal-update"} =>
    \A u \in Users : SumDaily(RecordsOf(u)) = users[u].totalMealCount

C3_Witness ==
  /\ Accepted("meal-update") /\ last.meal = "Lunch" /\ ops = 3
  /\ Cardinality(RecordsOf(last.userId)) = 2
  /\ Total(last.userId) = 3

\* C4: a meal update applies the record change and the counter delta as one step: there is
\* no state in which the record has been written and the counter does not include the delta.
C4_RecordAndCounterTogether ==
  \A p \in Procs :
    (procs[p].op = "meal-update" /\ procs[p].pc = "inc")
      => MealUpdateDelta(procs[p].meal, procs[p].doc) = 0

\* C5: when a persistence call fails partway through an operation, the store holds the
\* whole transition or none of it, so totalMealCount equals the sum of dailyMealCount
\* when the failed operation has returned its error.
C5_FailureLeavesSum ==
  \A p \in Procs :
    (procs[p].pc = "done" /\ procs[p].error = "persistence error")
      => \A u \in Users : users[u].totalMealCount = SumDaily(RecordsOf(u))

\* C6: after any sequence of operations run one at a time, lunchServed is true only if
\* meal is Lunch or Both and dinnerServed only if meal is Dinner or Both (I3).
C6_ServedOnlyIfEnabled ==
  \A r \in mealhistories :
    /\ r.lunchServed => r.meal \in {"Lunch", "Both"}
    /\ r.dinnerServed => r.meal \in {"Dinner", "Both"}

C6_Witness ==
  \E r \in mealhistories :
    /\ last.op \in UpdateOps /\ last.status = 200
    /\ r.userId = last.userId /\ r.date = last.date
    /\ r.meal = "Dinner" /\ r.dinnerServed /\ ~r.lunchServed

\* C7: after any sequence of operations run one at a time, every record's dailyMealCount
\* is the count of its meal: 0 for Off, 1 for Lunch or Dinner, 2 for Both (I2).
C7_DailyCountOfMeal == \A r \in mealhistories : r.dailyMealCount = Count(r.meal)

C7_Witness ==
  /\ Accepted("extra") /\ last.n > 0
  /\ \E r \in mealhistories : r.meal = "Both" /\ r.isExtra /\ r.dailyMealCount = 2
  /\ \E r \in mealhistories : r.date = today /\ r.meal = "Lunch" /\ ~r.isExtra

\* C8: under any interleaving of the operations that create records there is at most one
\* meal record per (user, day).
C8_OneRecordPerUserDay ==
  \A r, q \in mealhistories : (r.userId = q.userId /\ r.date = q.date) => r = q

C8_Witness ==
  \E p \in Procs :
    /\ procs[p].pc = "done" /\ procs[p].status = 500
    /\ procs[p].op \in {"meal-update", "staff-update", "serve", "extra-specific"}
    /\ Cardinality(Matching(mealhistories, procs[p].userId, procs[p].date)) = 1

\* the self-service update that the step (last, last') has run on (uid, date)
MealUpdated == ops' = ops + 1 /\ last'.op = "meal-update" /\ last'.status = 200

\* C9: a meal update on an existing record sets its meal and additionalItems to the given
\* ones, changes totalMealCount by count(new meal) - count(old meal), and adds no record.
C9_UpdateExisting ==
  [][(MealUpdated /\ Matching(mealhistories, last'.userId, last'.date) # {})
       => \E old \in mealhistories : \E new \in mealhistories' :
            /\ old.userId = last'.userId /\ old.date = last'.date
            /\ new._id = old._id
            /\ new.meal = last'.meal
            /\ new.additionalItems = last'.items
            /\ users'[last'.userId].totalMealCount
                 = users[last'.userId].totalMealCount + Count(last'.meal) - Count(old.meal)
            /\ Cardinality(mealhistories') = Cardinality(mealhistories)
            /\ {r._id : r \in mealhistories'} = {r._id : r \in mealhistories}]_vars

C9_Witness ==
  \E r \in mealhistories :
    /\ Accepted("meal-update") /\ last.meal = "Lunch" /\ last.items = <<"Egg">>
    /\ r.userId = last.userId /\ r.date = last.date
    /\ r.lunchServed /\ r.additionalItems = <<"Egg">>
    /\ Total(last.userId) = 1

\* C10: a meal update for a (user, date) without record creates exactly one record with
\* the new meal, dailyMealCount = count(new meal) and both served flags false, and adds
\* count(new meal) to totalMealCount.
C10_CreateWhenAbsent ==
  [][(MealUpdated /\ Matching(mealhistories, last'.userId, last'.date) = {})
       => \E new \in mealhistories' :
            /\ mealhistories' = mealhistories \cup {new}
            /\ new \notin mealhistories
            /\ new.userId = last'.userId /\ new.date = last'.date
            /\ new.meal = last'.meal
            /\ new.dailyMealCount = Count(last'.meal)
            /\ ~new.lunchServed /\ ~new.dinnerServed
            /\ users'[last'.userId].totalMealCount
                 = users[last'.userId].totalMealCount + Count(last'.meal)]_vars

C10_Witness ==
  /\ Accepted("meal-update") /\ last.meal = "Both" /\ ops = 1
  /\ Total(last.userId) = 2
  /\ \E r \in mealhistories : r.userId = last.userId /\ r.date = last.date /\ r.dailyMealCount = 2

\* a meal update, self-service or staff, that the step (last, last') has run
Updated == ops' = ops + 1 /\ last'.op \in UpdateOps

\* the record of (uid, date), when there is exactly one
RecordOf(mhs, uid, date) == CHOOSE r \in Matching(mhs, uid, date) : TRUE

\* C11: an accepted meal update (self-service or staff) of an existing record leaves a
\* slot's served flag at its previous value when the new meal contains the slot and sets
\* it to false when it does not (Both to Lunch clears dinnerServed, Both to Dinner clears
\* lunchServed, anything to Off clears both).
C11_ServedFlagsFollowMeal ==
  [][(Updated /\ last'.status = 200 /\ Matching(mealhistories, last'.userId, last'.date) # {})
       => \E old \in mealhistories : \E new \in mealhistories' :
            /\ old.userId = last'.userId /\ old.date = last'.date
            /\ new._id = old._id
            /\ new.lunchServed = (last'.meal \in {"Lunch", "Both"} /\ old.lunchServed)
            /\ new.dinnerServed = (last'.meal \in {"Dinner", "Both"} /\ old.dinnerServed)]_vars

C11_Witness ==
  /\ Accepted("staff-update") /\ last.meal = "Dinner" /\ ops = 3
  /\ Cardinality(Matching(mealhistories, last.userId, last.date)) = 1
  /\ RecordOf(mealhistories, last.userId, last.date).dinnerServed
  /\ ~RecordOf(mealhistories, last.userId, last.date).lunchServed
  /\ RecordOf(mealhistories, last.userId, last.date).additionalItems = <<"Egg">>

\* C12: a meal update (self-service or staff) whose meal is not one of Off, Lunch, Dinner,
\* Both fails with the validation error and changes no record and no counter.
C12_InvalidMealRejected ==
  [][(Updated /\ last'.meal \notin {"Off", "Lunch", "Dinner", "Both"})
       => /\ last'.status = 400 /\ last'.error = "Invalid meal type"
          /\ users' = users /\ mealhistories' = mealhistories]_vars

C12_Witness ==
  /\ last.op \in UpdateOps /\ last.meal = "Brunch" /\ last.status = 400
  /\ Matching(mealhistories, last.userId, last.date) # {}

\* C13: a self-service update (of a valid meal) for a day before the current day is
\* rejected with the date error and changes no record and no counter; one for today or a
\* later day is accepted; a staff update is accepted for any day.
C13_PastDateSelfServiceOnly ==
  [][(Updated /\ last'.meal \in {"Off", "Lunch", "Dinner", "Both"})
       => /\ (last'.op = "meal-update" /\ last'.date < today)
               => /\ last'.status = 400 /\ last'.error = "Cannot update past date"
                  /\ users' = users /\ mealhistories' = mealhistories
          /\ (last'.op = "meal-update" /\ last'.date >= today) => last'.status = 200
          /\ last'.op = "staff-update" => last'.status = 200]_vars

C13_Witness ==
  /\ last.op = "meal-update" /\ last.error = "Cannot update past date"
  /\ last.date = today - 1
  /\ \E r \in mealhistories : r.userId = last.userId /\ r.date = last.date /\ r.meal = "Both"

\* the fields of the records that the two update paths are compared on
Compared(mhs) ==
  {[userId |-> r.userId, date |-> r.date, meal |-> r.meal, dailyMealCount |-> r.dailyMealCount,
    lunchServed |-> r.lunchServed, dinnerServed |-> r.dinnerServed] : r \in mhs}

\* the other update path, called with the arguments of the update that (last, last') ran
OtherPath ==
  Run(Out([us |-> users, mhs |-> mealhistories],
          Call(IF last'.op = "meal-update" THEN "staff-update" ELSE "meal-update",
               last'.userId, last'.date, last'.meal, last'.items, {})), today)

\* C14: from every state and for every (user, date not in the past, meal), the staff update
\* and the self-service update answer alike and leave the same meal, dailyMealCount,
\* lunchServed, dinnerServed in every record and the same totalMealCount for every user.
C14_StaffUpdateSameAsSelfService ==
  [][(Updated /\ last'.date >= today)
       => /\ OtherPath.l.status = last'.status
          /\ OtherPath.db.us = users'
          /\ Compared(OtherPath.db.mhs) = Compared(mealhistories')]_vars

C14_Witness ==
  \E r \in mealhistories :
    /\ Accepted("meal-update") /\ last.meal = "Both" /\ last.date >= today
    /\ r.userId = last.userId /\ r.date = last.date
    /\ r.isExtra /\ r.lunchServed /\ r.dailyMealCount = 2

\* the rollover run that the step (last, last') has made
RolledOver == ops' = ops + 1 /\ last'.op = "rollover"

\* C15: a rollover run that directly follows a rollover run of the same day changes no
\* record and no totalMealCount, and every user has exactly one record for today after it.
C15_RolloverIdempotent ==
  [][(RolledOver /\ last.op = "rollover" /\ last.date = today)
       => /\ mealhistories' = mealhistories
          /\ users' = users
          /\ \A u \in Users : Cardinality(Matching(mealhistories', u, today)) = 1]_vars

C15_Witness ==
  /\ last.op = "rollover" /\ last.date = today /\ ops = 3 /\ today = 1
  /\ Cardinality(mealhistories) = 3
  /\ \E r \in mealhistories : r.date = 0 /\ r.meal = "Both" /\ r.userId = "u1"
  /\ \E r \in mealhistories : r.date = 1 /\ r.meal = "Both" /\ r.userId = "u1"
  /\ \E r \in mealhistories : r.date = 1 /\ r.meal = "Off" /\ r.userId = "u2"

\* C16: when the rollover creates today's record for a user who had none, the user's
\* totalMealCount grows by the count of the new record's meal (1 for Lunch or Dinner, 2 for
\* Both, 0 for Off).
C16_RolloverAddsFullCount ==
  [][RolledOver
       => \A u \in Users :
            Matching(mealhistories, u, today) = {}
              => \E new \in Matching(mealhistories', u, today) :
                   users'[u].totalMealCount = users[u].totalMealCount + Count(new.meal)]_vars

\* C17: after a rollover run, every user who had no record for today has exactly one, with
\* lunchServed, dinnerServed and isExtra false; its meal and additionalItems are those of the
\* user's record for yesterday when there is one, and it is Off with dailyMealCount 0 and
\* no items when the user has no record before today; the records that existed for today
\* keep their meal, additionalItems and served flags.
C17_RolloverCarriesForward ==
  [][RolledOver
       => /\ \A u \in Users :
               Matching(mealhistories, u, today) = {}
                 => /\ Cardinality(Matching(mealhistories', u, today)) = 1
                    /\ \A new \in Matching(mealhistories', u, today) :
                         /\ ~new.lunchServed /\ ~new.dinnerServed /\ ~new.isExtra
                         /\ \A prev \in Matching(mealhistories, u, today - 1) :
                              new.meal = prev.meal /\ new.additionalItems = prev.additionalItems
                         /\ {r \in mealhistories : r.userId = u /\ r.date < today} = {}
                              => /\ new.meal = "Off" /\ new.dailyMealCount = 0
                                 /\ new.additionalItems = <<>>
          /\ \A old \in FindByDate(mealhistories, today) :
               \E new \in mealhistories' :
                 /\ new._id = old._id /\ new.meal = old.meal
                 /\ new.additionalItems = old.additionalItems
                 /\ new.lunchServed = old.lunchServed /\ new.dinnerServed = old.dinnerServed]_vars

C17_Witness ==
  /\ last.op = "rollover" /\ today = 2 /\ last.date = 2
  /\ \E r \in mealhistories : /\ r.userId = "u1" /\ r.date = 2 /\ r.meal = "Lunch"
                               /\ r.additionalItems = <<"Egg">> /\ ~r.lunchServed
  /\ \E r \in mealhistories : /\ r.userId = "u1" /\ r.date = 1 /\ r.meal = "Lunch"
                               /\ r.additionalItems = <<"Egg">> /\ r.lunchServed
  /\ \E r \in mealhistories : r.userId = "u2" /\ r.date = 2 /\ r.meal = "Off"
  /\ \A r \in mealhistories : r.userId = "u2" => r.date = 2

\* C18: whatever user or staff operation interleaves with a rollover run, when the run
\* has ended every user has a record for the day of the run.
C18_RolloverCoversEveryUser ==
  \A p \in Procs :
    (procs[p].op = "rollover" /\ procs[p].pc = "done")
      => \A u \in Users : Matching(mealhistories, u, procs[p].date) # {}

\* the markServed call that the step (last, last') has made
Served == ops' = ops + 1 /\ last'.op = "serve"

\* the served flag of a slot in a record
Flag(r, slot) == IF slot = "Lunch" THEN r.lunchServed ELSE r.dinnerServed

\* C19: a markServed call for a slot of a record that is already served (the same call
\* succeeded before and the meal has not been changed since) fails with the already-served
\* error and changes nothing; and a served flag goes from false to true only by an accepted
\* markServed call for that user, date and slot, on a record whose meal contains the slot.
C19_ServedOnceOnly ==
  [][/\ Served
          => \A r \in Matching(mealhistories, last'.userId, last'.date) :
               Flag(r, last'.meal)
                 => /\ last'.status = 400 /\ last'.error = "already served"
                    /\ mealhistories' = mealhistories /\ users' = users
     /\ \A new \in mealhistories' : \A slot \in Slots :
          (Flag(new, slot) /\ \A old \in mealhistories : old._id = new._id => ~Flag(old, slot))
            => /\ Served /\ last'.status = 200
               /\ last'.userId = new.userId /\ last'.date = new.date /\ last'.meal = slot
               /\ new.meal \in {slot, "Both"}]_vars

C19_Witness ==
  /\ last.op = "serve" /\ last.status = 400 /\ last.error = "already served"
  /\ last.meal = "Dinner" /\ ops = 3
  /\ \E r \in mealhistories : /\ r.userId = last.userId /\ r.date = last.date
                               /\ r.meal = "Both" /\ r.dinnerServed /\ ~r.lunchServed

ServeOps == {"serve", "serve-first", "serve-second"}

NotEnabledErrors ==
  {"Cannot serve meal for Off status", "Lunch not enabled", "Dinner not enabled",
   "Lunch not enabled for this user", "Dinner not enabled for this user"}

\* C20: in every variant of the serve handler, a markServed call for a slot that the
\* record's meal does not contain (meal Off, Dinner when serving Lunch, Lunch when serving
\* Dinner) fails with a not-enabled error and sets no served flag.
C20_ServeNeedsEnabledSlot ==
  [][(ops' = ops + 1 /\ last'.op \in ServeOps)
       => \A r \in Matching(mealhistories, last'.userId, last'.date) :
            r.meal \notin {last'.meal, "Both"}
              => /\ last'.status = 400 /\ last'.error \in NotEnabledErrors
                 /\ mealhistories' = mealhistories]_vars

\* C21: an accepted markServed call on an existing record sets that slot's served flag to
\* true and changes nothing else: not the other flag, the meal, additionalItems or
\* dailyMealCount of the record, no other record and no totalMealCount.
C21_ServeSetsOneFlag ==
  [][(Served /\ last'.status = 200 /\ Matching(mealhistories, last'.userId, last'.date) # {})
       => \E old \in Matching(mealhistories, last'.userId, last'.date) :
            /\ mealhistories' =
                 (mealhistories \ {old})
                   \cup {IF last'.meal = "Lunch" THEN [old EXCEPT !.lunchServed = TRUE]
                                                ELSE [old EXCEPT !.dinnerServed = TRUE]}
            /\ users' = users]_vars

C21_Witness ==
  /\ Accepted("serve") /\ last.meal = "Lunch" /\ ops = 3
  /\ \E r \in mealhistories : /\ r.userId = last.userId /\ r.date = last.date
                               /\ r.meal = "Lunch" /\ r.lunchServed /\ ~r.dinnerServed
                               /\ r.additionalItems = <<"Egg">> /\ r.isExtra

\* the single-user extra grant that the step (last, last') has made
Granted == ops' = ops + 1 /\ last'.op = "extra-specific"

OtherSlot(slot) == IF slot = "Lunch" THEN "Dinner" ELSE "Lunch"

\* C22: a single-user extra grant for slot S is accepted and leaves meal S with
\* dailyMealCount 1 when there was no record or the record was Off, and meal Both with
\* dailyMealCount 2 when the record held exactly the other slot; the record then has isExtra
\* true and totalMealCount has changed by the new count minus the old one (+1 in both cases).
C22_ExtraSpecificGrants ==
  [][Granted
       => LET olds == Matching(mealhistories, last'.userId, last'.date)
              wasOff == olds = {} \/ \E old \in olds : old.meal = "Off"
              wasOther == \E old \in olds : old.meal = OtherSlot(last'.meal)
          IN (wasOff \/ wasOther)
               => /\ last'.status = 200
                  /\ Cardinality(Matching(mealhistories', last'.userId, last'.date)) = 1
                  /\ \A new \in Matching(mealhistories', last'.userId, last'.date) :
                       /\ new.isExtra
                       /\ wasOff => new.meal = last'.meal /\ new.dailyMealCount = 1
                       /\ wasOther => new.meal = "Both" /\ new.dailyMealCount = 2
                  /\ users'[last'.userId].totalMealCount
                       = users[last'.userId].totalMealCount + 1]_vars

C22_Witness ==
  /\ Accepted("extra-specific") /\ last.meal = "Dinner" /\ ops = 3
  /\ Total(last.userId) = 2
  /\ \E r \in mealhistories : /\ r.userId = last.userId /\ r.date = last.date
                               /\ r.meal = "Both" /\ r.isExtra /\ r.lunchServed
                               /\ r.dailyMealCount = 2

\* C23: a single-user extra grant for a slot that the existing meal already contains (Lunch
\* on Lunch or Both, Dinner on Dinner or Both) fails with the already-enabled error and
\* changes no record and no counter.
C23_ExtraSpecificAlreadyEnabled ==
  [][Granted
       => \A old \in Matching(mealhistories, last'.userId, last'.date) :
            old.meal \in {last'.meal, "Both"}
              => /\ last'.status = 400 /\ last'.error = "already enabled"
                 /\ mealhistories' = mealhistories /\ users' = users]_vars

C23_Witness ==
  /\ last.op = "extra-specific" /\ last.status = 400 /\ last.error = "already enabled"
  /\ \E r \in mealhistories : /\ r.userId = last.userId /\ r.date = last.date
                               /\ r.meal = last.meal /\ ~r.isExtra

\* the bulk extra grant that the step (last, last') has made
GrantedAll == ops' = ops + 1 /\ last'.op = "extra"

\* C24: after a bulk extra grant for (mealType, date), every user whose record for date was
\* Off and every user who had no record for date has a record for date with meal mealType.
C24_BulkExtraCoversMissing ==
  [][GrantedAll
       => \A u \in Users :
            (\A old \in Matching(mealhistories, u, last'.date) : old.meal = "Off")
              => \E new \in Matching(mealhistories', u, last'.date) : new.meal = last'.meal]_vars

\* C25: a bulk extra grant for (mealType, date) adds count(mealType) to the totalMealCount
\* of each user whose record for date it changed from Off to mealType, and changes the
\* totalMealCount of no other user.
C25_BulkExtraCountsChangedOnly ==
  [][GrantedAll
       => \A u \in Users :
            users'[u].totalMealCount =
              users[u].totalMealCount
                + (IF \E old \in Matching(mealhistories, u, last'.date) : old.meal = "Off"
                   THEN Count(last'.meal) ELSE 0)]_vars

\* C26: the count the bulk extra grant reports is the number of users whose record for the
\* date was Off before the call, and the number of records the call changed.
C26_BulkExtraReportsChanged ==
  [][GrantedAll
       => /\ last'.n = Cardinality({u \in Users :
                          \E old \in Matching(mealhistories, u, last'.date) : old.meal = "Off"})
          /\ last'.n = Cardinality(mealhistories \ mealhistories')]_vars

C26_Witness ==
  /\ Accepted("extra") /\ last.n = 1 /\ last.meal = "Dinner" /\ ops = 3
  /\ \E r \in mealhistories : r.date = last.date /\ r.meal = "Dinner" /\ r.isExtra
  /\ \E r \in mealhistories : r.date = last.date /\ r.meal = "Dinner" /\ ~r.isExtra

ListingOps == {"all-users", "off-users"}

\* the slots still outstanding for a user on a date, as the specification derives them
Pending(uid, date) ==
  IF \A r \in Matching(mealhistories, uid, date) : r.meal = "Off" THEN {"Lunch", "Dinner"}
  ELSE LET r == RecordOf(mealhistories, uid, date)
       IN {slot \in Slots : r.meal \in {slot, "Both"} /\ ~Flag(r, slot)}

\* the set of the elements of a sequence
Range(seq) == {seq[i] : i \in DOMAIN seq}

\* C27: the pending-meal listing answers, for every user its filter matches, Lunch and
\* Dinner when the meal is Off or there is no record, the selected slot if it is unserved
\* when the meal is Lunch or Dinner, and every unserved slot when the meal is Both; a user
\* with no such slot is left out.
C27_ListingShowsPendingSlots ==
  last.op \in ListingOps
    => \A u \in last.filter :
         /\ u \in DOMAIN last.body <=> Pending(u, last.date) # {}
         /\ u \in DOMAIN last.body => Range(last.body[u]) = Pending(u, last.date)

\* C28: the pending-meal listing and the per-date total-count query leave every record and
\* every counter as they were, whatever the state and the filter.
C28_QueriesReadOnly ==
  [][(ops' = ops + 1 /\ last'.op \in ListingOps \cup {"total-count"})
       => users' = users /\ mealhistories' = mealhistories]_vars

C28_Witness ==
  /\ last.op = "all-users" /\ last.status = 200 /\ last.filter = {"u1"}
  /\ DOMAIN last.body = {"u1"}
  /\ \E r \in mealhistories : r.userId = "u1" /\ r.date = last.date /\ r.meal = "Both"
                               /\ r.lunchServed

\* every totalMealCount k higher
Shifted(us, k) == [u \in DOMAIN us |-> [us[u] EXCEPT !.totalMealCount = @ + k]]

\* the users after the request of the step (last, last') when it starts from counters that
\* are k higher
UsersFromShifted(k) ==
  Run(Out([us |-> Shifted(users, k), mhs |-> mealhistories],
          Call(last'.op, last'.userId, last'.date, last'.meal, last'.items, {})), today).db.us

\* C29: the admin user-update sets the fields it is given (deposit, totalMealCount) of the
\* addressed user to the given values and changes nothing else, no meal record included;
\* every other operation changes totalMealCount only by adding a delta: started from
\* counters that are k higher it ends with counters that are k higher.
C29_OnlyAdminOverwrites ==
  [][(ops' = ops + 1)
       => /\ last'.op = "admin-update"
               => /\ mealhistories' = mealhistories
                  /\ \A u \in Users \ {last'.userId} : users'[u] = users[u]
                  /\ last'.items.deposit # <<>>
                       => users'[last'.userId].deposit = last'.items.deposit[1]
                  /\ last'.items.deposit = <<>>
                       => users'[last'.userId].deposit = users[last'.userId].deposit
                  /\ last'.items.totalMealCount # <<>>
                       => users'[last'.userId].totalMealCount = last'.items.totalMealCount[1]
                  /\ last'.items.totalMealCount = <<>>
                       => users'[last'.userId].totalMealCount
                            = users[last'.userId].totalMealCount
          /\ last'.op = "staff-serving" => users' = users
          /\ last'.op \notin {"admin-update", "staff-serving"}
               => /\ UsersFromShifted(10) = Shifted(users', 10)
                  /\ \A u \in Users : users'[u].deposit = users[u].deposit]_vars

C29_Witness ==
  /\ Accepted("admin-update") /\ last.items = [deposit |-> <<>>, totalMealCount |-> <<7>>]
  /\ Total(last.userId) = 7 /\ users[last.userId].deposit = 5
  /\ SumDaily(RecordsOf(last.userId)) = 2

SelfServiceOps == {"meal-update", "server-meal-update"}

\* C30: a self-service meal update that directly follows an accepted one with the same
\* user, date, meal and items leaves the records and the user's totalMealCount exactly as
\* the first left them, in the latest variant and in that of src/server.js.
C30_MealUpdateIdempotent ==
  [][(/\ ops' = ops + 1 /\ last'.op \in SelfServiceOps
      /\ last.op = last'.op /\ last.status = 200
      /\ last'.userId = last.userId /\ last'.date = last.date
      /\ last'.meal = last.meal /\ last'.items = last.items)
       => /\ mealhistories' = mealhistories
          /\ users' = users]_vars

C30_Witness ==
  /\ Accepted("server-meal-update") /\ last.meal = "Both" /\ last.items = <<"Egg">>
  /\ ops = 2 /\ today = 1
  /\ Total(last.userId) = 2
  /\ Cardinality(mealhistories) = 1
  /\ \E r \in mealhistories : r.userId = last.userId /\ r.date = 1 /\ r.meal = "Both"

\* the sum of the specification's counts of the meals of a set of records
RECURSIVE SumCount(_)
SumCount(rs) ==
  IF rs = {} THEN 0
  ELSE LET r == CHOOSE x \in rs : TRUE IN Count(r.meal) + SumCount(rs \ {r})

\* C31: after any sequence of updates by the handler of src/server.js run one at a time
\* (with meals of the enum), every user's totalMealCount is the sum over the user's records
\* of the count of the meal, Off counting 0, Lunch and Dinner 1 and Both 2.
C31_ServerTotalIsSumOfCounts ==
  (last.op = "server-meal-update" /\ \A r \in mealhistories : r.meal \in Meals)
    => \A u \in Users : Total(u) = SumCount(RecordsOf(u))

\* C32: a markServed call that answers with an error leaves every record and every counter
\* as they were, also when there was no record for (user, date).
C32_FailedServeChangesNothing ==
  [][(Served /\ last'.status # 200)
       => mealhistories' = mealhistories /\ users' = users]_vars

\* C33: of two concurrent markServed calls for the same (user, date, slot), with no meal
\* change in between, at most one is accepted.
C33_OneServeWins ==
  \A p, q \in Procs :
    (/\ p # q
     /\ procs[p].op = "serve" /\ procs[q].op = "serve"
     /\ procs[p].userId = procs[q].userId /\ procs[p].date = procs[q].date
     /\ procs[p].meal = procs[q].meal
     /\ procs[p].pc = "done" /\ procs[q].pc = "done")
      => ~(procs[p].status = 200 /\ procs[q].status = 200)

\* C34: when a markServed call and a meal update (self-service or staff) on the same
\* (user, date) have run concurrently and both have ended, no served flag of the record is
\* true for a slot that its meal does not contain.
C34_ServeAndUpdateKeepFlags ==
  \A p, q \in Procs :
    (/\ procs[p].op = "serve" /\ procs[q].op \in UpdateOps
     /\ procs[p].userId = procs[q].userId /\ procs[p].date = procs[q].date
     /\ procs[p].pc = "done" /\ procs[q].pc = "done")
      => \A r \in Matching(mealhistories, procs[p].userId, procs[p].date) :
           \A slot \in Slots : Flag(r, slot) => r.meal \in {slot, "Both"}

\* C35: when the daily rollover and a meal update or extra grant on the rollover's date have
\* run concurrently and both have ended, the record of the updated user for that date (the
\* user's only record, so nothing was carried forward) has the dailyMealCount of its final
\* meal and the user's totalMealCount is the sum of the user's dailyMealCount values.
C35_RolloverAndUpdateKeepCounts ==
  \A p, q \in Procs :
    (/\ procs[p].op = "rollover"
     /\ procs[q].op \in UpdateOps \cup {"extra", "extra-specific"}
     /\ procs[p].date = procs[q].date
     /\ procs[p].pc = "done" /\ procs[q].pc = "done")
      => \A u \in Users :
           (Cardinality(RecordsOf(u)) = 1 /\ \A r \in RecordsOf(u) : r.date = procs[p].date)
             => /\ \A r \in RecordsOf(u) : r.dailyMealCount = Count(r.meal)
                /\ Total(u) = SumDaily(RecordsOf(u))

\* C36: starting with every totalMealCount 0 and no record, and without an admin override,
\* totalMealCount is never negative after any sequence of operations run one at a time.
C36_TotalNeverNegative == \A u \in Users : Total(u) >= 0

\* the fields of a synthesized record that are compared
Synthesized(r) ==
  [meal |-> r.meal, additionalItems |-> r.additionalItems, dailyMealCount |-> r.dailyMealCount,
   lunchServed |-> r.lunchServed, dinnerServed |-> r.dinnerServed]

\* the store after the staff serving page for today has been loaded in the state before
ServingPageInstead ==
  Run(Out([us |-> users, mhs |-> mealhistories],
          Call("staff-serving", "all", today, "", <<>>, {})), today).db.mhs

\* the store after a serve call for (uid, today) in the state before
ServeInstead(uid) ==
  Run(Out([us |-> users, mhs |-> mealhistories],
          Call("serve", uid, today, "Lunch", <<>>, {})), today).db.mhs

\* C37: for every user without a record for today, the record that the rollover creates has
\* the meal, additionalItems, dailyMealCount and served flags of the record that the staff
\* serving page would create instead, and the meal, additionalItems and dailyMealCount of
\* the record that the serve handler would create, also when the user has older records but
\* none for yesterday.
C37_RolloverSynthesizesAlike ==
  [][(RolledOver /\ last'.error = "")
       => \A u \in Users :
            Matching(mealhistories, u, today) = {}
              => LET rolled == Synthesized(RecordOf(mealhistories', u, today))
                     page == Synthesized(RecordOf(ServingPageInstead, u, today))
                     serve == Synthesized(RecordOf(ServeInstead(u), u, today))
                 IN /\ rolled = page
                    /\ rolled.meal = serve.meal
                    /\ rolled.additionalItems = serve.additionalItems
                    /\ rolled.dailyMealCount = serve.dailyMealCount]_vars

\* the operations that are about one user
SingleUserOps == {"meal-update", "staff-update", "serve", "extra-specific"}

\* the store
Store == [us |-> users, mhs |-> mealhistories]

\* a step from store db to store after leaves the records and the counters of the users
\* other than uid as they are
OnlyOf(uid, db, after) ==
  /\ \A v \in Users \ {uid} : after.us[v] = db.us[v]
  /\ {r \in after.mhs : r.userId # uid} = {r \in db.mhs : r.userId # uid}

\* C38: a step of a single-user operation on u changes no record and no counter of another
\* user, and the next steps of two operations in progress on distinct users commute: either
\* order leads to the same store and the same continuation of both, so that every
\* interleaving of the two ends in the store that running them one after the other gives.
C38_DistinctUsersCommute ==
  \A p, q \in Procs :
    (/\ p # q /\ Busy(p) /\ Busy(q)
     /\ procs[p].op \in SingleUserOps /\ procs[q].op \in SingleUserOps
     /\ procs[p].userId # procs[q].userId)
      => LET a == Step(Store, today, procs[p])
             b == Step(Store, today, procs[q])
             ab == Step(a.db, today, procs[q])
             ba == Step(b.db, today, procs[p])
         IN /\ OnlyOf(procs[p].userId, Store, a.db)
            /\ OnlyOf(procs[q].userId, Store, b.db)
            /\ ab.l = b.l /\ ba.l = a.l
            /\ ab.db = ba.db

C38_Witness ==
  /\ procs["p1"].op = "meal-update" /\ procs["p1"].userId = "u1" /\ procs["p1"].pc = "inc"
  /\ procs["p2"].op = "extra-specific" /\ procs["p2"].userId = "u2"
  /\ procs["p2"].pc = "update" /\ procs["p1"].date = procs["p2"].date
  /\ \E r \in mealhistories : r.userId = "u1" /\ r.date = procs["p1"].date /\ r.meal = "Both"
  /\ \E r \in mealhistories : r.userId = "u2" /\ r.date = procs["p2"].date /\ r.meal = "Dinner"

\* C39: in every operation run one at a time, a served flag that is true stays true, unless
\* the operation changes the meal of the record to one that does not contain the slot; no
\* record with a served flag is removed.
C39_ServedFlagStays ==
  [][\A old \in mealhistories : \A slot \in Slots :
       Flag(old, slot)
         => \E new \in mealhistories' :
              /\ new._id = old._id
              /\ \/ Flag(new, slot)
                 \/ new.meal # old.meal /\ new.meal \notin {slot, "Both"}]_vars

C39_Witness ==
  /\ last.op = "rollover" /\ last.date = today /\ last.error = ""
  /\ \E r \in mealhistories :
       r.userId = "u1" /\ r.date = today /\ r.meal = "Dinner" /\ r.dinnerServed

====
